---- MODULE Spec2Model ----
(***************************************************************************)
(* A model of K_volume_mixer (src/main.rs): the egui application MyApp,    *)
(* its background refresh thread, the mpsc channel between them, and the   *)
(* text parsers for the output of `pactl list sink-inputs` and             *)
(* `wpctl get-volume`.                                                      *)
(*                                                                         *)
(* Representation.  A Rust string is a sequence of one-character strings,  *)
(* so that trimming, splitting and number parsing are computed as the      *)
(* code computes them.  An f32 is a fixed-point integer counting           *)
(* hundredths (65.0 is 6500, 0.65 is 65); every number the model draws has *)
(* at most two decimals.  Option<T> is a record with a tag.                *)
(***************************************************************************)
EXTENDS Integers, Sequences, FiniteSets, TLC

VARIABLES
    \* ---- MyApp (src/main.rs 20-26)
    apps,              \* HashMap<u32, HashMap<String, String>>
    per_app_volumes,   \* HashMap<u32, f32>
    vol,               \* f32, the main volume
    \* ---- the channel of MyApp::default (src/main.rs 35)
    queue,             \* snapshots sent and not yet received
    rx_alive,          \* the Receiver (MyApp.update_rx) has not been dropped
    \* ---- control state of the two threads
    ui_pc,             \* position of the UI thread
    refresh_pc,        \* position of the refresh thread
    sending,           \* the snapshot the refresh thread is about to send
    \* ---- history (not program state)
    last_sent,         \* Option: the last snapshot the producer enqueued
    last_query,        \* the outcome of the latest main-volume query
    drained,           \* the current drain loop has received a snapshot
    \* ---- parse_sink_inputs, line by line (src/main.rs 196-228)
    stdout_lines,      \* stdout.lines()
    line_no,           \* number of lines consumed by the for loop
    result,            \* `result`
    current_id,        \* `current_id`
    parser_pc          \* "scan" | "parsed" | "applied" | "panicked" | "off"

appVars == <<apps, per_app_volumes, vol>>
chanVars == <<queue, rx_alive>>
threadVars == <<ui_pc, refresh_pc, sending>>
histVars == <<last_sent, last_query, drained>>
parserVars == <<stdout_lines, line_no, result, current_id, parser_pc>>
vars == <<appVars, chanVars, threadVars, histVars, parserVars>>

----------------------------------------------------------------------------
\* Option<T>

None == [tag |-> "None"]
Some(v) == [tag |-> "Some", val |-> v]
IsSome(o) == o.tag = "Some"

\* HashMap: a function; HashMap::new() is the empty function.
EmptyMap == << >>
MapInsert(m, k, v) == [x \in (DOMAIN m) \cup {k} |-> IF x = k THEN v ELSE m[x]]

----------------------------------------------------------------------------
\* str methods, over sequences of characters

\* char::is_whitespace, on the characters the model's inputs use
IsWhitespace(c) == c \in {" ", "\t"}

RECURSIVE TrimStart(_)
TrimStart(s) ==
    IF s # << >> /\ IsWhitespace(Head(s)) THEN TrimStart(Tail(s)) ELSE s

RECURSIVE TrimEnd(_)
TrimEnd(s) ==
    IF s # << >> /\ IsWhitespace(s[Len(s)])
    THEN TrimEnd(SubSeq(s, 1, Len(s) - 1))
    ELSE s

Trim(s) == TrimEnd(TrimStart(s))

StartsWith(s, p) == Len(s) >= Len(p) /\ SubSeq(s, 1, Len(p)) = p

StripPrefix(s, p) ==
    IF StartsWith(s, p) THEN Some(SubSeq(s, Len(p) + 1, Len(s))) ELSE None

\* str::strip_suffix with a char pattern
StripSuffix(s, c) ==
    IF s # << >> /\ s[Len(s)] = c THEN Some(SubSeq(s, 1, Len(s) - 1)) ELSE None

\* str::trim_matches with a char pattern: every leading and trailing c
RECURSIVE TrimMatches(_, _)
TrimMatches(s, c) ==
    IF s # << >> /\ Head(s) = c THEN TrimMatches(Tail(s), c)
    ELSE IF s # << >> /\ s[Len(s)] = c
         THEN TrimMatches(SubSeq(s, 1, Len(s) - 1), c)
         ELSE s

\* str::split_once: around the first occurrence of the delimiter d
SplitOnce(s, d) ==
    LET hits == {i \in 1..(Len(s) - Len(d) + 1) : SubSeq(s, i, i + Len(d) - 1) = d}
    IN  IF hits = {} THEN None
        ELSE LET i == CHOOSE j \in hits : \A k \in hits : j <= k
             IN  Some(<<SubSeq(s, 1, i - 1), SubSeq(s, i + Len(d), Len(s))>>)

\* str::split with a char pattern: the fields, empty ones included
RECURSIVE Split(_, _)
Split(s, c) ==
    LET hits == {i \in 1..Len(s) : s[i] = c}
    IN  IF hits = {} THEN <<s>>
        ELSE LET i == CHOOSE j \in hits : \A k \in hits : j <= k
             IN  <<SubSeq(s, 1, i - 1)>> \o Split(SubSeq(s, i + 1, Len(s)), c)

\* str::split_whitespace: the non-empty runs of non-whitespace
RECURSIVE SplitWhitespace(_)
SplitWhitespace(s) ==
    LET t == TrimStart(s)
        ws == {i \in 1..Len(t) : IsWhitespace(t[i])}
    IN  IF t = << >> THEN << >>
        ELSE IF ws = {} THEN <<t>>
        ELSE LET i == CHOOSE j \in ws : \A k \in ws : j <= k
             IN  <<SubSeq(t, 1, i - 1)>> \o SplitWhitespace(SubSeq(t, i, Len(t)))

\* Iterator::nth (zero-based) and slice::last
Nth(xs, n) == IF n + 1 <= Len(xs) THEN Some(xs[n + 1]) ELSE None
Last(xs) == IF xs # << >> THEN Some(xs[Len(xs)]) ELSE None

----------------------------------------------------------------------------
\* str::parse

Digits == <<"0", "1", "2", "3", "4", "5", "6", "7", "8", "9">>
IsDigit(c) == \E i \in 1..10 : Digits[i] = c
DigitVal(c) == (CHOOSE i \in 1..10 : Digits[i] = c) - 1

RECURSIVE DecimalValue(_)
DecimalValue(ds) ==
    IF ds = << >> THEN 0
    ELSE 10 * DecimalValue(SubSeq(ds, 1, Len(ds) - 1)) + DigitVal(ds[Len(ds)])

\* <u32 as FromStr>: an optional '+', then one or more digits, no overflow.
\* The model's ids have at most nine digits, so every digit string it parses
\* is below 2^32; a longer one is reported as the overflow error.
ParseU32(s) ==
    LET ds == IF s # << >> /\ Head(s) = "+" THEN Tail(s) ELSE s
    IN  IF ds # << >> /\ (\A i \in 1..Len(ds) : IsDigit(ds[i])) /\ Len(ds) <= 9
        THEN Some(DecimalValue(ds))
        ELSE None

\* <f32 as FromStr>, on decimal literals: an optional sign, digits with an
\* optional '.', and at least one digit.  The value is in hundredths, its
\* decimals beyond the second dropped.  (The exponent, "inf" and "nan" forms,
\* and integer parts of more than six digits, occur in no input the model
\* draws; the last are refused to keep the arithmetic within TLC's integers.)
ParseF32(s) ==
    LET neg  == s # << >> /\ Head(s) = "-"
        body == IF s # << >> /\ Head(s) \in {"+", "-"} THEN Tail(s) ELSE s
        dot  == SplitOnce(body, <<".">>)
        int  == IF IsSome(dot) THEN dot.val[1] ELSE body
        frac == IF IsSome(dot) THEN dot.val[2] ELSE << >>
        f2   == SubSeq(frac \o <<"0", "0">>, 1, 2)
        ok   == /\ \A i \in 1..Len(int) : IsDigit(int[i])
                /\ \A i \in 1..Len(frac) : IsDigit(frac[i])
                /\ Len(int) + Len(frac) >= 1
                /\ Len(int) <= 6
        mag  == 100 * DecimalValue(int) + DecimalValue(f2)
    IN  IF ok THEN Some(IF neg THEN 0 - mag ELSE mag) ELSE None

----------------------------------------------------------------------------
\* parse_sink_inputs: the body of the for loop (src/main.rs 199-226).
\* The loop's state is [result, current_id, panicked]; `panicked` records an
\* `unwrap()` on a missing entry, after which nothing more runs.

SinkInputPrefix == <<"S","i","n","k"," ","I","n","p","u","t"," ","#">>
KeyValueSep == <<" ","="," ">>
VolumePrefix == <<"V","o","l","u","m","e",":">>
VolumeKey == <<"V","o","l","u","m","e">>

\* result.get_mut(&id).unwrap().insert(k, v)
InsertProperty(st, id, k, v) ==
    IF id \in DOMAIN st.result
    THEN [st EXCEPT !.result = MapInsert(st.result, id, MapInsert(st.result[id], k, v))]
    ELSE [st EXCEPT !.panicked = TRUE]

\* lines 202-207
OnHeaderKeepOld(st, trimmed) ==
    LET id_str == StripPrefix(trimmed, SinkInputPrefix)
        id == IF IsSome(id_str) THEN ParseU32(Trim(id_str.val)) ELSE None
    IN  IF ~st.panicked /\ IsSome(id)
        THEN [st EXCEPT !.current_id = id,
                        !.result = IF id.val \in DOMAIN st.result THEN st.result
                                   ELSE MapInsert(st.result, id.val, EmptyMap)]
        ELSE st

OnHeader(st, trimmed) ==
    LET id_str == StripPrefix(trimmed, SinkInputPrefix)
        id == IF IsSome(id_str) THEN ParseU32(Trim(id_str.val)) ELSE None
    IN  IF ~st.panicked /\ IsSome(id)
        THEN [st EXCEPT !.current_id = id,
                        !.result = MapInsert(st.result, id.val, EmptyMap)]
        ELSE st

\* lines 209-216
OnKeyValue(st, trimmed) ==
    LET kv == SplitOnce(trimmed, KeyValueSep)
    IN  IF ~st.panicked /\ IsSome(kv) /\ IsSome(st.current_id)
        THEN InsertProperty(st, st.current_id.val, kv.val[1], TrimMatches(kv.val[2], "\""))
        ELSE st

\* lines 218-225
OnVolume(st, trimmed) ==
    IF ~st.panicked /\ StartsWith(trimmed, VolumePrefix) /\ IsSome(st.current_id)
    THEN InsertProperty(st, st.current_id.val, VolumeKey,
                        Trim(SubSeq(trimmed, Len(VolumePrefix) + 1, Len(trimmed))))
    ELSE st

\* one iteration of `for line in stdout.lines()`
ParseLine(st, line) ==
    LET trimmed == TrimStart(line)
    IN  OnVolume(OnKeyValue(OnHeader(st, trimmed), trimmed), trimmed)

ParserStart == [result |-> EmptyMap, current_id |-> None, panicked |-> FALSE]

RECURSIVE ParseLines(_, _)
ParseLines(st, lines) ==
    IF lines = << >> THEN st ELSE ParseLines(ParseLine(st, Head(lines)), Tail(lines))

----------------------------------------------------------------------------
\* MyApp::update, lines 64-75: the VolumeTable of one snapshot

\* lines 66-70 for one stream: Some(percent) when every step succeeds
PercentOfFirstField(data) ==
    IF VolumeKey \notin DOMAIN data THEN None
    ELSE LET first_percent == Nth(Split(data[VolumeKey], "/"), 0)
             percent_str == IF IsSome(first_percent)
                            THEN StripSuffix(Trim(first_percent.val), "%")
                            ELSE None
         IN  IF IsSome(percent_str) THEN ParseF32(Trim(percent_str.val)) ELSE None

PercentOf(data) ==
    IF VolumeKey \notin DOMAIN data THEN None
    ELSE LET first_percent == Nth(Split(data[VolumeKey], "/"), 1)
             percent_str == IF IsSome(first_percent)
                            THEN StripSuffix(Trim(first_percent.val), "%")
                            ELSE None
         IN  IF IsSome(percent_str) THEN ParseF32(Trim(percent_str.val)) ELSE None

\* lines 64-75: clear(), then one insert per stream that parses
RebuildVolumesNoClear(old, snapshot) ==
    LET parsed == {pid \in DOMAIN snapshot : IsSome(PercentOf(snapshot[pid]))}
    IN  [pid \in parsed \cup DOMAIN old |->
            IF pid \in parsed THEN PercentOf(snapshot[pid]).val ELSE old[pid]]

RebuildVolumes(old, snapshot) ==
    LET parsed == {pid \in DOMAIN snapshot : IsSome(PercentOf(snapshot[pid]))}
    IN  [pid \in parsed |-> PercentOf(snapshot[pid]).val]

----------------------------------------------------------------------------
\* The lines `pactl list sink-inputs` prints, as far as the parser tells them
\* apart: block headers, a quoted property, and Volume descriptors.

HeaderLine42 == <<"S","i","n","k"," ","I","n","p","u","t"," ","#","4","2">>
HeaderLine7 == <<"S","i","n","k"," ","I","n","p","u","t"," ","#","7">>
HeaderLineBad == <<"S","i","n","k"," ","I","n","p","u","t"," ","#","x">>
NameLine == <<"\t","a","p","p","l","i","c","a","t","i","o","n",".","n","a","m","e"," ","="," ","\"","F","i","r","e","f","o","x","\"">>
VolumeLine75 == <<"\t","V","o","l","u","m","e",":"," ","7","5","%"," ","/"," ","7","5","%">>
VolumeLineMono == <<" "," ","V","o","l","u","m","e",":"," ","M","o","n","o",":"," ","5","0","%"," ","/"," ","5","0","%">>
VolumeLineOneField == <<"V","o","l","u","m","e",":"," ","5","0","%">>
VolumeLineNoSuffix == <<"V","o","l","u","m","e",":"," ","5","0","%"," ","/"," ","5","0">>
VolumeLineLabelled == <<"V","o","l","u","m","e",":"," ","F","r","o","n","t"," ","L","e","f","t",":"," ","3","0","%"," ","/"," ","F","r","o","n","t"," ","R","i","g","h","t",":"," ","6","0","%">>
VolumeLine150 == <<"V","o","l","u","m","e",":"," ","f","r","o","n","t","-","l","e","f","t",":"," ","9","8","3","0","4"," ","/"," ","1","5","0","%"," ","/"," ","1","0",".","5","7"," ","d","B">>

LineVocab ==
    { HeaderLine42, HeaderLine7, HeaderLineBad, NameLine, VolumeLine75,
      VolumeLineMono, VolumeLineOneField, VolumeLineNoSuffix,
      VolumeLineLabelled, VolumeLine150 }

MaxLines == 3

RECURSIVE SeqsUpTo(_, _)
SeqsUpTo(S, n) ==
    IF n = 0 THEN {<< >>}
    ELSE LET shorter == SeqsUpTo(S, n - 1)
         IN  shorter \cup {Append(s, x) : s \in {t \in shorter : Len(t) = n - 1}, x \in S}

\* A snapshot and its VolumeTable that MyApp may hold before a refresh
PriorSnapshot ==
    ParseLines(ParserStart, <<HeaderLine7, VolumeLine75>>).result

----------------------------------------------------------------------------
\* ParserSpec: parse_sink_inputs run line by line over every bounded output,
\* then the result applied to MyApp as MyApp::update applies a snapshot.

AppIdle ==
    /\ vol = 0
    /\ queue = << >>
    /\ rx_alive = TRUE
    /\ ui_pc = "off"
    /\ refresh_pc = "off"
    /\ sending = EmptyMap
    /\ last_sent = None
    /\ last_query = None
    /\ drained = 0

ParserInit ==
    /\ AppIdle
    /\ \E prior \in {EmptyMap, PriorSnapshot} :
          /\ apps = prior
          /\ per_app_volumes = RebuildVolumes(EmptyMap, prior)
    /\ stdout_lines \in SeqsUpTo(LineVocab, MaxLines)
    /\ line_no = 0
    /\ result = EmptyMap        \* line 196
    /\ current_id = None        \* line 197
    /\ parser_pc = "scan"

\* lines 199-226, one iteration
ScanLine ==
    /\ parser_pc = "scan"
    /\ line_no < Len(stdout_lines)
    /\ LET st == ParseLine([result |-> result, current_id |-> current_id,
                            panicked |-> FALSE], stdout_lines[line_no + 1])
       IN  /\ result' = st.result
           /\ current_id' = st.current_id
           /\ parser_pc' = IF st.panicked THEN "panicked" ELSE "scan"
    /\ line_no' = line_no + 1
    /\ UNCHANGED <<stdout_lines, appVars, chanVars, threadVars, histVars>>

\* line 228: the loop is over, `result` is returned
ScanEnd ==
    /\ parser_pc = "scan"
    /\ line_no = Len(stdout_lines)
    /\ parser_pc' = "parsed"
    /\ UNCHANGED <<stdout_lines, line_no, result, current_id,
                   appVars, chanVars, threadVars, histVars>>

\* lines 62-75: the returned snapshot replaces apps, the table is rebuilt
ApplySnapshot ==
    /\ parser_pc = "parsed"
    /\ apps' = result
    /\ per_app_volumes' = RebuildVolumes(per_app_volumes, result)
    /\ parser_pc' = "applied"
    /\ UNCHANGED <<vol, stdout_lines, line_no, result, current_id,
                   chanVars, threadVars, histVars>>

ParserNext == ScanLine \/ ScanEnd \/ ApplySnapshot

ParserSpec == ParserInit /\ [][ParserNext]_vars

----------------------------------------------------------------------------
\* Command::output(): what an external command can do (lines 142-144,
\* 152-154, 161-164, 189-192).  spawn is "ok" (the
\* process ran and exited), "fail" (output() returned Err: the tool is
\* missing) or "hang" (output() never returns).  success is
\* output.status.success(); utf8 is whether str::from_utf8 accepts stdout.

Ran(success, utf8, stdout) ==
    [spawn |-> "ok", success |-> success, utf8 |-> utf8, stdout |-> stdout]
SpawnFails == [spawn |-> "fail"]
Hangs == [spawn |-> "hang"]

\* `wpctl get-volume @DEFAULT_AUDIO_SINK@`
Wpctl065 == Ran(TRUE, TRUE, <<"V","o","l","u","m","e",":"," ","0",".","6","5">>)
Wpctl150 == Ran(TRUE, TRUE, <<"V","o","l","u","m","e",":"," ","1",".","5","0">>)
WpctlGarbage == Ran(TRUE, TRUE, <<"g","a","r","b","a","g","e">>)
WpctlExitFailure == Ran(FALSE, TRUE, << >>)
WpctlNotUtf8 == Ran(TRUE, FALSE, << >>)
WpctlOutcomes ==
    { Wpctl065, Wpctl150, WpctlGarbage, WpctlExitFailure, WpctlNotUtf8,
      SpawnFails, Hangs }

\* `pactl list sink-inputs`; stdout is given as stdout.lines()
PactlFirefox == Ran(TRUE, TRUE, <<HeaderLine42, NameLine, VolumeLine75>>)
PactlTwoStreams ==
    Ran(TRUE, TRUE, <<HeaderLine42, VolumeLineMono, HeaderLine7, VolumeLineLabelled>>)
PactlLoud == Ran(TRUE, TRUE, <<HeaderLine7, VolumeLine150>>)
PactlExitFailure == Ran(FALSE, TRUE, << >>)
PactlNotUtf8 == Ran(TRUE, FALSE, << >>)
PactlOutcomes ==
    { PactlFirefox, PactlTwoStreams, PactlLoud, PactlExitFailure, PactlNotUtf8,
      SpawnFails, Hangs }

\* The unbounded channel holds at most MaxQueue snapshots in the model.
MaxQueue == 2

\* `volume * 100.0` (line 173) and the slider range 0.0..=100.0 (lines 90, 127)
PercentFactor == 100
SliderMax == 100
\* where the user may leave a slider: both ends and one place between
SliderPositions == {0, 40 * 100, SliderMax * 100}

Placeholder == <<"i","n","v","a","l","i","d"," ","U","T","F","-","8">>

\* get_system_volume, lines 166-185, for a command that ran
GetSystemVolumeUnscaled(out) ==
    IF out.success
    THEN LET stdout == IF out.utf8 THEN out.stdout ELSE Placeholder
             parts == SplitWhitespace(Trim(stdout))
             volume_str == Last(parts)
             volume == IF IsSome(volume_str) THEN ParseF32(volume_str.val) ELSE None
         IN  IF IsSome(volume) THEN Some(volume.val) ELSE None
    ELSE None

get_system_volume(out) ==
    IF out.success
    THEN LET stdout == IF out.utf8 THEN out.stdout ELSE Placeholder
             parts == SplitWhitespace(Trim(stdout))
             volume_str == Last(parts)
             volume == IF IsSome(volume_str) THEN ParseF32(volume_str.val) ELSE None
         IN  IF IsSome(volume) THEN Some(volume.val * PercentFactor) ELSE None
    ELSE None

\* lines 30-33: the startup value
StartupVol(sys_v) == IF IsSome(sys_v) THEN sys_v.val ELSE 0

\* lines 78-80: `if let Some(sys_v) = get_system_volume() { self.vol = sys_v; }`
UpdatedVolOrZero(old, sys_v) == IF IsSome(sys_v) THEN sys_v.val ELSE 0

UpdatedVol(old, sys_v) == IF IsSome(sys_v) THEN sys_v.val ELSE old

\* line 61: `for apps in self.update_rx.try_iter()` goes on while a message
\* is pending
DrainMoreOnce(q, n) == q # << >> /\ n = 0

DrainMore(q, n) == q # << >>

\* parse_sink_inputs, lines 194-228, for a command that ran with UTF-8 output
parse_sink_inputs(out) == ParseLines(ParserStart, out.stdout)

ParserOff ==
    /\ stdout_lines = << >>
    /\ line_no = 0
    /\ result = EmptyMap
    /\ current_id = None
    /\ parser_pc = "off"

\* the process has not been torn down by a panic of the main thread
ProcessAlive == ui_pc \notin {"aborted", "panicked"}

----------------------------------------------------------------------------
\* Spec: the application.

Init ==
    /\ apps = EmptyMap
    /\ per_app_volumes = EmptyMap
    /\ vol = 0
    /\ queue = << >>
    /\ rx_alive = TRUE
    /\ ui_pc = "startup"
    /\ refresh_pc = "unborn"
    /\ sending = EmptyMap
    /\ last_sent = None
    /\ last_query = None
    /\ drained = 0
    /\ ParserOff

\* MyApp::default, lines 29-54
Startup ==
    /\ ui_pc = "startup"
    /\ \E out \in WpctlOutcomes :
          /\ last_query' = Some(out)
          /\ \/ /\ out.spawn = "fail"         \* .expect("failed to get volume")
                /\ ui_pc' = "aborted"
                /\ UNCHANGED <<vol, refresh_pc>>
             \/ /\ out.spawn = "hang"
                /\ ui_pc' = "startup_blocked"
                /\ UNCHANGED <<vol, refresh_pc>>
             \/ /\ out.spawn = "ok"
                /\ vol' = StartupVol(get_system_volume(out))
                /\ ui_pc' = "drain"
                /\ refresh_pc' = "querying"   \* thread::spawn
    /\ UNCHANGED <<apps, per_app_volumes, chanVars, sending, last_sent, drained,
                   parserVars>>

\* MyApp::update, lines 61-82: one iteration of the drain loop
UIReceive ==
    /\ ui_pc = "drain"
    /\ DrainMore(queue, drained)
    /\ apps' = Head(queue)
    /\ queue' = Tail(queue)
    /\ per_app_volumes' = RebuildVolumes(per_app_volumes, Head(queue))
    /\ drained' = IF drained = 0 THEN 1 ELSE 2
    /\ \E out \in WpctlOutcomes :
          /\ last_query' = Some(out)
          /\ \/ /\ out.spawn = "fail"         \* .expect("failed to get volume")
                /\ ui_pc' = "panicked"
                /\ vol' = vol
             \/ /\ out.spawn = "hang"
                /\ ui_pc' = "blocked"
                /\ vol' = vol
             \/ /\ out.spawn = "ok"
                /\ vol' = UpdatedVol(vol, get_system_volume(out))
                /\ ui_pc' = "drain"
    /\ UNCHANGED <<rx_alive, refresh_pc, sending, last_sent, parserVars>>

\* line 61: try_iter() yields nothing more, the loop is over
UIDrainEnd ==
    /\ ui_pc = "drain"
    /\ ~DrainMore(queue, drained)
    /\ ui_pc' = "render"
    /\ UNCHANGED <<appVars, chanVars, refresh_pc, sending, histVars, parserVars>>

\* lines 84-137, no slider touched.  egui::Slider::new(&mut x, 0.0..=100.0)
\* writes x only when the user moves the slider: a value out of the range is
\* shown clamped and left as it is.
RenderUntouched ==
    /\ ui_pc = "render"
    /\ ui_pc' = "drain"
    /\ drained' = 0
    /\ last_query' = None
    /\ UNCHANGED <<appVars, chanVars, refresh_pc, sending, last_sent, parserVars>>

\* lines 88-94: the main slider is moved to a place of its range;
\* set_main_volume (141-145) runs wpctl and drops the result, leaving MyApp
\* as it is
RenderMainSlider ==
    /\ ui_pc = "render"
    /\ \E v \in SliderPositions : v # vol /\ vol' = v
    /\ ui_pc' = "drain"
    /\ drained' = 0
    /\ last_query' = None
    /\ UNCHANGED <<apps, per_app_volumes, chanVars, refresh_pc, sending,
                   last_sent, parserVars>>

\* lines 101-133: the slider of one stream is moved; a stream gets a slider
\* when it is a key of apps with an entry in per_app_volumes.  set_app_volume
\* (147-155) runs pactl and drops the result
RenderAppSlider ==
    /\ ui_pc = "render"
    /\ \E pid \in DOMAIN apps \cap DOMAIN per_app_volumes :
          \E v \in SliderPositions :
             /\ v # per_app_volumes[pid]
             /\ per_app_volumes' = [per_app_volumes EXCEPT ![pid] = v]
    /\ ui_pc' = "drain"
    /\ drained' = 0
    /\ last_query' = None
    /\ UNCHANGED <<apps, vol, chanVars, refresh_pc, sending, last_sent, parserVars>>

\* the window is closed between two frames: run_native returns and MyApp,
\* with its Receiver and the messages still queued, is dropped
CloseWindow ==
    /\ ui_pc = "drain"
    /\ drained = 0
    /\ ui_pc' = "closed"
    /\ rx_alive' = FALSE
    /\ queue' = << >>
    /\ UNCHANGED <<appVars, refresh_pc, sending, histVars, parserVars>>

\* line 39: parse_sink_inputs() in the refresh thread
RefreshQuery ==
    /\ ProcessAlive
    /\ refresh_pc = "querying"
    /\ \E out \in PactlOutcomes :
          \/ /\ out.spawn = "fail"            \* .expect("Failed to execute pactl")
             /\ refresh_pc' = "panicked_spawn"
             /\ sending' = sending
          \/ /\ out.spawn = "hang"
             /\ refresh_pc' = "blocked"
             /\ sending' = sending
          \/ /\ out.spawn = "ok"
             /\ ~out.utf8                     \* .expect("Invalid UTF-8 output")
             /\ refresh_pc' = "panicked_utf8"
             /\ sending' = sending
          \/ /\ out.spawn = "ok"
             /\ out.utf8
             /\ LET st == parse_sink_inputs(out)
                IN  /\ refresh_pc' = IF st.panicked THEN "panicked_unwrap"
                                     ELSE "publishing"
                    /\ sending' = st.result
    /\ UNCHANGED <<appVars, chanVars, ui_pc, histVars, parserVars>>

\* line 41, tx.send(apps) succeeds
RefreshSend ==
    /\ ProcessAlive
    /\ refresh_pc = "publishing"
    /\ rx_alive
    /\ Len(queue) < MaxQueue
    /\ queue' = Append(queue, sending)
    /\ last_sent' = Some(sending)
    /\ refresh_pc' = "idle"
    /\ UNCHANGED <<appVars, rx_alive, ui_pc, sending, last_query, drained, parserVars>>

\* lines 41-43, tx.send(apps) fails: break
RefreshSendFails ==
    /\ ProcessAlive
    /\ refresh_pc = "publishing"
    /\ ~rx_alive
    /\ refresh_pc' = "done"
    /\ UNCHANGED <<appVars, chanVars, ui_pc, sending, histVars, parserVars>>

\* line 44: the sleep is over
RefreshWake ==
    /\ ProcessAlive
    /\ refresh_pc = "idle"
    /\ refresh_pc' = "querying"
    /\ UNCHANGED <<appVars, chanVars, ui_pc, sending, histVars, parserVars>>

Next ==
    \/ Startup
    \/ UIReceive
    \/ UIDrainEnd
    \/ RenderUntouched
    \/ RenderMainSlider
    \/ RenderAppSlider
    \/ CloseWindow
    \/ RefreshQuery
    \/ RefreshSend
    \/ RefreshSendFails
    \/ RefreshWake

Spec == Init /\ [][Next]_vars

----------------------------------------------------------------------------
\* Properties of Spec.

\* The VolumeTable is exactly what lines 64-75 derive from `snapshot`.
DerivedFrom(table, snapshot) ==
    /\ \A pid \in DOMAIN table :
          /\ pid \in DOMAIN snapshot
          /\ IsSome(PercentOf(snapshot[pid]))
          /\ table[pid] = PercentOf(snapshot[pid]).val
    /\ \A pid \in DOMAIN snapshot :
          IsSome(PercentOf(snapshot[pid])) => pid \in DOMAIN table

\* C1.  Hand-off from the refresh thread to the UI.  When the drain loop of
\* a tick ends, the queue is empty; if the tick received at least one
\* snapshot, apps is the last snapshot the producer enqueued and
\* per_app_volumes is derived from that snapshot alone.  While nothing is
\* pending, no step of the drain loop changes apps, per_app_volumes or vol.
C1_HandOff ==
    [][ /\ (ui_pc = "drain" /\ ui_pc' = "render") =>
              /\ queue' = << >>
              /\ drained > 0 =>
                    /\ IsSome(last_sent)
                    /\ apps' = last_sent.val
                    /\ DerivedFrom(per_app_volumes', last_sent.val)
        /\ (ui_pc = "drain" /\ queue = << >>) =>
              /\ apps' = apps
              /\ per_app_volumes' = per_app_volumes
              /\ vol' = vol
      ]_vars

\* A tick that received two or more snapshots has ended with the last one.
C1_Witness ==
    /\ ui_pc = "render"
    /\ drained = 2
    /\ queue = << >>
    /\ IsSome(last_sent)
    /\ apps = last_sent.val
    /\ apps = parse_sink_inputs(PactlTwoStreams).result

\* C2.  The key set of per_app_volumes is a subset of the key set of apps,
\* and a stream whose Volume descriptor does not parse is in apps and not in
\* per_app_volumes.
C2_KeySubset ==
    /\ DOMAIN per_app_volumes \subseteq DOMAIN apps
    /\ \A pid \in DOMAIN apps :
          ~IsSome(PercentOf(apps[pid])) => pid \notin DOMAIN per_app_volumes

\* A stream without a parsed volume beside one whose slider has been moved.
C2_Witness ==
    /\ ui_pc = "drain"
    /\ DOMAIN per_app_volumes # {}
    /\ DOMAIN apps \ DOMAIN per_app_volumes # {}
    /\ \E pid \in DOMAIN per_app_volumes :
          per_app_volumes[pid] # PercentOf(apps[pid]).val

\* C3.  Main-volume query inside a tick.  A response whose last token is the
\* fraction 0.65 stores 65.0 (1.50 stores 150.0); after a failing query
\* (`garbage`, a non-zero exit, output that is not UTF-8) vol is what it was.
C3_MainVolumeQuery ==
    [][ (ui_pc = "drain" /\ Len(queue') < Len(queue) /\ ui_pc' = "drain") =>
           /\ last_query' = Some(Wpctl065) => vol' = 6500
           /\ last_query' = Some(Wpctl150) => vol' = 15000
           /\ last_query' \in {Some(WpctlGarbage), Some(WpctlExitFailure),
                               Some(WpctlNotUtf8)} => vol' = vol
      ]_vars

\* `garbage` was the answer to the latest query and 65.0 is still stored.
C3_Witness ==
    /\ ui_pc = "drain"
    /\ drained > 0
    /\ last_query = Some(WpctlGarbage)
    /\ vol = 6500

\* C4.  Once MyApp::default has returned, no failure to invoke an external
\* tool terminates the process or ends the refresh thread.
C4_InvocationFailureNeverFatal ==
    /\ ui_pc # "panicked"
    /\ refresh_pc # "panicked_spawn"

\* C5.  Output that is not UTF-8 is replaced by a placeholder and treated as
\* unparseable by both queries; the refresh thread keeps running.
C5_DecodingFailureNeverFatal ==
    /\ refresh_pc # "panicked_utf8"
    /\ (last_query = Some(WpctlNotUtf8) => ui_pc \notin {"panicked", "aborted"})

\* C6.  While the process is alive the refresh loop ends only after the
\* Receiver has been dropped, by a failed send.
C6_RefreshEndsOnlyOnFailedSend ==
    refresh_pc \in {"done", "panicked_spawn", "panicked_utf8", "panicked_unwrap"} =>
        /\ refresh_pc = "done"
        /\ ~rx_alive

\* C7.  No external command blocks the UI thread: MyApp::update is never
\* waiting for a command that does not return.
C7_UINeverBlocked ==
    ui_pc # "blocked"

InRange(v) == 0 <= v /\ v <= SliderMax * 100

\* C8.  Once MyApp exists, vol and every value of per_app_volumes is a
\* percentage between 0 and 100, whatever the external tools print and
\* wherever the sliders are moved.
C8_VolumesInRange ==
    /\ ui_pc \notin {"startup", "aborted", "startup_blocked"} => InRange(vol)
    /\ \A pid \in DOMAIN per_app_volumes : InRange(per_app_volumes[pid])

----------------------------------------------------------------------------
\* Properties of ParserSpec.

\* what one line is to the parser
HeaderIdOf(line) ==
    LET id_str == StripPrefix(TrimStart(line), SinkInputPrefix)
    IN  IF IsSome(id_str) THEN ParseU32(Trim(id_str.val)) ELSE None
LineSets(line, key, value) ==
    LET t == TrimStart(line)
        kv == SplitOnce(t, KeyValueSep)
    IN  \/ IsSome(kv) /\ key = kv.val[1] /\ value = TrimMatches(kv.val[2], "\"")
        \/ /\ StartsWith(t, VolumePrefix)
           /\ key = VolumeKey
           /\ value = Trim(SubSeq(t, Len(VolumePrefix) + 1, Len(t)))
LineKeys(line) ==
    LET t == TrimStart(line)
        kv == SplitOnce(t, KeyValueSep)
    IN  (IF IsSome(kv) THEN {kv.val[1]} ELSE {})
        \cup (IF StartsWith(t, VolumePrefix) THEN {VolumeKey} ELSE {})

\* the consumed lines that are headers with an id, and the header a line is under
HeaderLines == {h \in 1..line_no : IsSome(HeaderIdOf(stdout_lines[h]))}
HeaderAbove(k) == CHOOSE h \in HeaderLines : h <= k /\ \A g \in HeaderLines : g <= k => g <= h
Owner(k) ==
    IF \E h \in HeaderLines : h <= k
    THEN Some(HeaderIdOf(stdout_lines[HeaderAbove(k)]).val)
    ELSE None
BlockStart(id) ==
    CHOOSE h \in HeaderLines :
        /\ HeaderIdOf(stdout_lines[h]).val = id
        /\ \A g \in HeaderLines : HeaderIdOf(stdout_lines[g]).val = id => g <= h

\* C9.  parse_sink_inputs never panics: whenever current_id is set, that id
\* has an entry in result.  Lines before the first header add nothing.  The
\* key set of result is the set of ids of the headers parsed.  The entry of
\* an id holds exactly the properties of the lines that follow the latest
\* header of that id while it is the most recent header, the last value of
\* each key.
C9_ParserSafe ==
    /\ parser_pc # "panicked"
    /\ IsSome(current_id) => current_id.val \in DOMAIN result
    /\ HeaderLines = {} => result = EmptyMap /\ current_id = None
    /\ DOMAIN result = {HeaderIdOf(stdout_lines[h]).val : h \in HeaderLines}
    /\ \A id \in DOMAIN result :
          LET block == {k \in BlockStart(id)..line_no : Owner(k) = Some(id)}
          IN  /\ DOMAIN result[id] = UNION {LineKeys(stdout_lines[k]) : k \in block}
              /\ \A key \in DOMAIN result[id] :
                    \E k \in block :
                       /\ LineSets(stdout_lines[k], key, result[id][key])
                       /\ \A j \in block : j > k => key \notin LineKeys(stdout_lines[j])

\* A property line before any header was dropped, a later one was recorded.
C9_Witness ==
    /\ parser_pc = "parsed"
    /\ stdout_lines = <<NameLine, HeaderLine42, VolumeLine75>>
    /\ DOMAIN result = {42}
    /\ DOMAIN result[42] = {VolumeKey}

\* the percentage of each Volume descriptor the parser can store
ExpectedPercent(descriptor) ==
    CASE descriptor = <<"7","5","%"," ","/"," ","7","5","%">> -> Some(7500)
      [] descriptor = <<"M","o","n","o",":"," ","5","0","%"," ","/"," ","5","0","%">> -> Some(5000)
      [] descriptor = <<"f","r","o","n","t","-","l","e","f","t",":"," ","9","8","3","0","4"," ","/"," ","1","5","0","%"," ","/"," ","1","0",".","5","7"," ","d","B">> -> Some(15000)
      [] descriptor = <<"5","0","%">> -> None
      [] descriptor = <<"5","0","%"," ","/"," ","5","0">> -> None
      [] descriptor = <<"F","r","o","n","t"," ","L","e","f","t",":"," ","3","0","%"," ","/"," ","F","r","o","n","t"," ","R","i","g","h","t",":"," ","6","0","%">> -> None

\* C10.  Once a snapshot is applied, a stream is in per_app_volumes with
\* value n exactly when the second `/`-separated field of its Volume
\* descriptor is n followed by `%`; a stream with no Volume property, a
\* single field, no `%` or a labelled field is left out.  `Mono: 50% / 50%`
\* gives 50.0, and the block of stream 42 with `75% / 75%` gives {42: 75.0}.
C10_PercentExtraction ==
    parser_pc = "applied" =>
        /\ apps = result
        /\ \A pid \in DOMAIN apps :
              LET expected == IF VolumeKey \in DOMAIN apps[pid]
                              THEN ExpectedPercent(apps[pid][VolumeKey])
                              ELSE None
              IN  IF IsSome(expected)
                  THEN /\ pid \in DOMAIN per_app_volumes
                       /\ per_app_volumes[pid] = expected.val
                  ELSE pid \notin DOMAIN per_app_volumes
        /\ stdout_lines = <<HeaderLine42, NameLine, VolumeLine75>> =>
              /\ apps = (42 :> (<<"a","p","p","l","i","c","a","t","i","o","n",".","n","a","m","e">> :> <<"F","i","r","e","f","o","x">>
                                @@ VolumeKey :> <<"7","5","%"," ","/"," ","7","5","%">>))
              /\ per_app_volumes = (42 :> 7500)

\* Stream 42 with `Mono: 50% / 50%` beside stream 7, which has no Volume line.
C10_Witness ==
    /\ parser_pc = "applied"
    /\ stdout_lines = <<HeaderLine42, VolumeLineMono, HeaderLine7>>
    /\ DOMAIN apps = {7, 42}
    /\ per_app_volumes = (42 :> 5000)

====
